---------------------------- MODULE Spec2Model ----------------------------
(***************************************************************************)
(* Model of the WordleSolver class of src/wordle-solver.js: the session    *)
(* state (vocabularies, candidate list, history, pending guess and         *)
(* feedback, letter tracking, the recommendation display), one action per  *)
(* event handler, and the pure functions (getResultPattern,                *)
(* isWordCompatible, the scorer) as operators.                             *)
(*                                                                         *)
(* A word is a sequence of five one-letter strings; a feedback pattern is  *)
(* a sequence of five of "green", "yellow", "grey".  JavaScript arrays are *)
(* 0-based, the sequences here 1-based: position i of the code is i+1.     *)
(***************************************************************************)
EXTENDS Integers, Sequences, FiniteSets, TLC

(***************************************************************************)
(* Program constants.                                                      *)
(***************************************************************************)
WordLen == 5
TopN == 8
LargeSpace == 50
PoolCap == 2000
RepeatPenaltyMin == 10

(***************************************************************************)
(* Bounds of the model.                                                    *)
(***************************************************************************)
\* Letters of the alphabet the pure-function specifications draw words from.
NumLetters == 2
\* Accepted guesses per session (between two resets).
MaxHistory == 2
\* Accepted guesses the user can submit before the callback that init()
\* scheduled 100 ms after load has run.
MaxSubmitsBeforeTimer == 1
\* The largest numRecommendations the ranking is asked for, besides TopN.
MaxTopN == 3
\* The longest candidate list the pool selection is put to.
MaxCandidates == 52
\* Allowed words beyond PoolCap in the longest allowed vocabulary.
MaxExtra == 1
\* The longest candidate list the scorer is put to (the repeated-letter
\* penalty starts above RepeatPenaltyMin candidates).
MaxScored == 12

Alphabet == <<"A", "B", "C", "D", "E", "F", "G", "H">>
Letters == {Alphabet[i] : i \in 1..NumLetters}
Colours == {"green", "yellow", "grey"}
Positions == 1..WordLen
Words == [Positions -> Letters]
Patterns == [Positions -> Colours]
AllGrey == <<"grey", "grey", "grey", "grey", "grey">>
\* The feedback buttons the modelled user presses: those of these positions.
ResultPositions == {1}

Range(s) == {s[i] : i \in DOMAIN s}
Contains(s, x) == \E i \in DOMAIN s : s[i] = x
Count(s, x) == Cardinality({i \in DOMAIN s : s[i] = x})
Marked(c) == c = "green" \/ c = "yellow"

\* String.prototype.toUpperCase on the letters the inputs use.
UpperOf(ch) ==
  CASE ch = "a" -> "A" [] ch = "b" -> "B" [] ch = "c" -> "C"
    [] ch = "d" -> "D" [] ch = "e" -> "E" [] ch = "f" -> "F"
    [] OTHER -> ch
toUpperCase(s) == [i \in DOMAIN s |-> UpperOf(s[i])]

\* Array.prototype.filter, keeping order (by halves, so that the evaluation
\* of a list of PoolCap words is not PoolCap calls deep).
RECURSIVE FilterSeq(_, _)
FilterSeq(s, keep) ==
  IF s = <<>> THEN <<>>
  ELSE IF Len(s) = 1 THEN (IF s[1] \in keep THEN s ELSE <<>>)
  ELSE LET half == Len(s) \div 2
       IN FilterSeq(SubSeq(s, 1, half), keep)
            \o FilterSeq(SubSeq(s, half + 1, Len(s)), keep)

(***************************************************************************)
(* getResultPattern(guess, answer)                                         *)
(***************************************************************************)
\* First pass: the positions where guess and answer agree.
GreenPositions(guess, answer) == {i \in Positions : guess[i] = answer[i]}

\* The result array after the first pass, written out as a tuple of its
\* five elements.
FirstPass(guess, answer) ==
  LET mark(i) == IF guess[i] = answer[i] THEN "green" ELSE "grey"
  IN <<mark(1), mark(2), mark(3), mark(4), mark(5)>>

\* The first answer index not yet used that holds `letter`, or 0.
FirstFree(answer, used, letter) ==
  LET free == {j \in Positions : j \notin used /\ answer[j] = letter}
  IN IF free = {} THEN 0 ELSE CHOOSE j \in free : \A k \in free : j <= k

\* Second pass from position i on, with the result and the used answer
\* indices so far.
RECURSIVE SecondPass(_, _, _, _, _)
SecondPass(guess, answer, i, result, used) ==
  IF i > WordLen THEN result
  ELSE LET j == FirstFree(answer, used, guess[i])
       IN IF result[i] = "grey" /\ j # 0
          THEN SecondPass(guess, answer, i + 1,
                          [result EXCEPT ![i] = "yellow"], used \cup {j})
          ELSE SecondPass(guess, answer, i + 1, result, used)

\* A plausible slip: a yellow wherever the letter occurs in the answer,
\* without consuming answer positions.
getResultPatternNoConsume(guess, answer) ==
  [i \in Positions |->
     IF guess[i] = answer[i] THEN "green"
     ELSE IF Contains(answer, guess[i]) THEN "yellow" ELSE "grey"]

\* A plausible slip: the first pass does not mark the answer positions of
\* the greens as used.
getResultPatternGreensFree(guess, answer) ==
  SecondPass(guess, answer, 1, FirstPass(guess, answer), {})

getResultPattern(guess, answer) ==
  SecondPass(guess, answer, 1, FirstPass(guess, answer),
             GreenPositions(guess, answer))

(***************************************************************************)
(* isWordCompatible(word, guess, result)                                   *)
(***************************************************************************)
\* A plausible slip: a grey position is not checked at all.
PositionOKGreyUnchecked(word, guess, result, i) ==
  CASE result[i] = "green" -> word[i] = guess[i]
    [] result[i] = "yellow" -> word[i] # guess[i] /\ Contains(word, guess[i])
    [] OTHER -> TRUE

\* A plausible slip: a grey letter must be absent, whatever its other
\* occurrences in the guess are marked.
PositionOKNoCarveOut(word, guess, result, i) ==
  CASE result[i] = "green" -> word[i] = guess[i]
    [] result[i] = "yellow" -> word[i] # guess[i] /\ Contains(word, guess[i])
    [] result[i] = "grey" -> ~Contains(word, guess[i])
    [] OTHER -> TRUE

\* The per-position check of the first loop.
PositionOK(word, guess, result, i) ==
  CASE result[i] = "green" -> word[i] = guess[i]
    [] result[i] = "yellow" -> word[i] # guess[i] /\ Contains(word, guess[i])
    [] result[i] = "grey" ->
         LET hasYellowOrGreen ==
               \E idx \in Positions : Marked(result[idx]) /\ guess[idx] = guess[i]
         IN ~(~hasYellowOrGreen /\ Contains(word, guess[i]))
    [] OTHER -> TRUE

\* The second loop: a yellow letter occurs in the word at least as often as
\* it is yellow or green in the guess.
YellowCountOK(word, guess, result, i) ==
  result[i] = "yellow" =>
    LET guessCount ==
          Cardinality({idx \in Positions :
                         guess[idx] = guess[i] /\ Marked(result[idx])})
    IN ~(Count(word, guess[i]) < guessCount)

isWordCompatible(word, guess, result) ==
  /\ \A i \in Positions : PositionOK(word, guess, result, i)
  /\ \A i \in Positions : YellowCountOK(word, guess, result, i)

(***************************************************************************)
(* The scorer.  JavaScript computes the scores in floating point; here a   *)
(* score is kept exactly, as an integer: the `score` of a recommendation   *)
(* is the code's score times 100 * possibleWords.length (the same factor   *)
(* for every guess scored in one call), and `expectedRemaining` is in      *)
(* tenths (Math.round(x * 10) / 10).                                       *)
(***************************************************************************)
Distinct(word) == Range(word)

\* calculateExpectedInformation(pattern), in tenths.
calculateExpectedInformation(pattern) ==
  15 * Count(pattern, "green") + 10 * Count(pattern, "yellow")
    + 4 * Count(pattern, "grey")

\* The pattern of the guess against each answer, in list order.
RECURSIVE PatternsOf(_, _)
PatternsOf(guess, answers) ==
  IF answers = <<>> THEN <<>>
  ELSE <<getResultPattern(guess, Head(answers))>> \o PatternsOf(guess, Tail(answers))

\* The answers whose pattern (in pats, aligned with answers) is p.
RECURSIVE GroupOf(_, _, _)
GroupOf(answers, pats, p) ==
  IF answers = <<>> THEN <<>>
  ELSE (IF Head(pats) = p THEN <<Head(answers)>> ELSE <<>>)
         \o GroupOf(Tail(answers), Tail(pats), p)

\* The Map resultGroups: pattern -> the answers giving it, in list order.
resultGroups(guess, possible) ==
  LET pats == PatternsOf(guess, possible)
  IN [p \in Range(pats) |-> GroupOf(possible, pats, p)]

\* The sum over the groups of |group| * |group|.
RECURSIVE SumSquares(_, _)
SumSquares(groups, keys) ==
  IF keys = {} THEN 0
  ELSE LET k == CHOOSE x \in keys : TRUE
           size == Len(groups[k])
       IN size * size + SumSquares(groups, keys \ {k})

RECURSIVE SumInformation(_, _)
SumInformation(guess, answers) ==
  IF answers = <<>> THEN 0
  ELSE calculateExpectedInformation(getResultPattern(guess, Head(answers)))
         + SumInformation(guess, Tail(answers))

\* A plausible slip: the average is taken over the groups, not weighted by
\* the probability of each.
calculateExpectedRemainingWordsPerGroup(guess, possible) ==
  IF Len(possible) <= 1 THEN 10 * Len(possible)
  ELSE LET groups == resultGroups(guess, possible)
           n == Cardinality(DOMAIN groups)
       IN (20 * Len(possible) + n) \div (2 * n)

\* calculateExpectedRemainingWords(guess), in tenths, rounded half up.
calculateExpectedRemainingWords(guess, possible) ==
  IF Len(possible) <= 1 THEN 10 * Len(possible)
  ELSE LET groups == resultGroups(guess, possible)
           n == Len(possible)
       IN (20 * SumSquares(groups, DOMAIN groups) + n) \div (2 * n)

\* A plausible slip: the repeated-letter penalty does not look at the number
\* of candidates.
calculateExpectedValueAlwaysPenalised(guess, possible, tested, excluded) ==
  IF Len(possible) <= 1 THEN 0
  ELSE LET groups == resultGroups(guess, possible)
           n == Len(possible)
           newLettersCount == Cardinality(Distinct(guess) \ tested)
           uniqueLetters == Cardinality(Distinct(guess))
           repeatPenalty == IF uniqueLetters < 5 THEN 5 - uniqueLetters ELSE 0
           excludedLettersUsed == Cardinality(Distinct(guess) \cap excluded)
       IN 100 * n * n - 100 * SumSquares(groups, DOMAIN groups)
            + 150 * n * newLettersCount
            - 100 * n * repeatPenalty
            - 300 * n * excludedLettersUsed
            + 8 * SumInformation(guess, possible)

\* calculateExpectedValue(guess), times 100 * possible.length.
calculateExpectedValue(guess, possible, tested, excluded) ==
  IF Len(possible) <= 1 THEN 0
  ELSE LET groups == resultGroups(guess, possible)
           n == Len(possible)
           newLettersCount == Cardinality(Distinct(guess) \ tested)
           uniqueLetters == Cardinality(Distinct(guess))
           repeatPenalty ==
             IF uniqueLetters < 5 /\ n > RepeatPenaltyMin
             THEN 5 - uniqueLetters ELSE 0
           excludedLettersUsed == Cardinality(Distinct(guess) \cap excluded)
       IN 100 * n * n - 100 * SumSquares(groups, DOMAIN groups)
            + 150 * n * newLettersCount
            - 100 * n * repeatPenalty
            - 300 * n * excludedLettersUsed
            + 8 * SumInformation(guess, possible)

(***************************************************************************)
(* findDistinguishingWords and findTopGuesses                              *)
(***************************************************************************)
\* A plausible slip: repeated letters are not looked at.
findDistinguishingWordsAnyLetters(possible, all) ==
  IF Len(possible) # 2 THEN all
  ELSE LET diffLetters ==
             UNION {{possible[1][i], possible[2][i]} :
                      i \in {p \in Positions : possible[1][p] # possible[2][p]}}
       IN FilterSeq(all, {w \in Range(all) : Distinct(w) \cap diffLetters # {}})

findDistinguishingWords(possible, all) ==
  IF Len(possible) # 2 THEN all
  ELSE LET diffLetters ==
             UNION {{possible[1][i], possible[2][i]} :
                      i \in {p \in Positions : possible[1][p] # possible[2][p]}}
       IN FilterSeq(all, {w \in Range(all) :
                            /\ Distinct(w) \cap diffLetters # {}
                            /\ Cardinality(Distinct(w)) = 5})

\* The record findTopGuesses returns for a candidate shown as it is.
PlainGuess(word) ==
  [word |-> word, score |-> 0, expectedRemaining |-> 10, newLetters |-> 0,
   isPossibleAnswer |-> TRUE, uniqueLetters |-> Cardinality(Distinct(word))]

DetailedGuess(guess, possible, tested, excluded) ==
  [word |-> guess,
   score |-> calculateExpectedValue(guess, possible, tested, excluded),
   expectedRemaining |-> calculateExpectedRemainingWords(guess, possible),
   newLetters |-> Cardinality(Distinct(guess) \ tested),
   isPossibleAnswer |-> Contains(possible, guess),
   uniqueLetters |-> Cardinality(Distinct(guess))]

\* Array.prototype.sort with (a, b) => b.score - a.score: descending by
\* score, stable (equal scores keep their order).
RECURSIVE InsertByScoreAscending(_, _)
InsertByScoreAscending(sorted, g) ==
  IF sorted = <<>> THEN <<g>>
  ELSE IF Head(sorted).score <= g.score
       THEN <<Head(sorted)>> \o InsertByScoreAscending(Tail(sorted), g)
       ELSE <<g>> \o sorted

RECURSIVE InsertByScore(_, _)
InsertByScore(sorted, g) ==
  IF sorted = <<>> THEN <<g>>
  ELSE IF Head(sorted).score >= g.score
       THEN <<Head(sorted)>> \o InsertByScore(Tail(sorted), g)
       ELSE <<g>> \o sorted

RECURSIVE SortByScore(_)
SortByScore(gs) ==
  IF gs = <<>> THEN <<>>
  ELSE InsertByScore(SortByScore(SubSeq(gs, 1, Len(gs) - 1)), gs[Len(gs)])

Slice(s, n) == SubSeq(s, 1, IF Len(s) < n THEN Len(s) ELSE n)

\* A plausible slip: the large-space test is off by one.
guessPoolOfOffByOne(possible, all) ==
  IF Len(possible) >= LargeSpace THEN Slice(all, PoolCap)
  ELSE IF Len(possible) > 2 THEN all
  ELSE findDistinguishingWords(possible, all)

guessPoolOf(possible, all) ==
  IF Len(possible) > LargeSpace THEN Slice(all, PoolCap)
  ELSE IF Len(possible) > 2 THEN all
  ELSE findDistinguishingWords(possible, all)

findTopGuesses(numRecommendations, possible, all, tested, excluded) ==
  IF Len(possible) = 0 THEN <<>>
  ELSE IF Len(possible) = 1 THEN <<PlainGuess(possible[1])>>
  ELSE LET guessPool == guessPoolOf(possible, all)
       IN IF Len(possible) <= 2 /\ Len(guessPool) = 0
          THEN [i \in DOMAIN possible |-> PlainGuess(possible[i])]
          ELSE Slice(SortByScore([i \in DOMAIN guessPool |->
                        DetailedGuess(guessPool[i], possible, tested, excluded)]),
                     numRecommendations)

(***************************************************************************)
(* The session: the fields of WordleSolver and the page elements its       *)
(* handlers write.                                                         *)
(***************************************************************************)
VARIABLES
  answerWords,        \* this.answerWords
  allWords,           \* this.allWords
  possibleWords,      \* this.possibleWords
  guessHistory,       \* this.guessHistory: records [word, result]
  currentGuess,       \* this.currentGuess
  currentResult,      \* this.currentResult
  testedLetters,      \* this.testedLetters
  knownLetters,       \* this.knownLetters
  excludedLetters,    \* this.excludedLetters
  recommendedWord,    \* text of #recommendedWord
  topRecommendations, \* the items of #topRecommendations
  topRecsDisplay,     \* "absent" until created, then its style.display
  finalAnswerShown,   \* #finalAnswerSection is displayed
  timerPending,       \* init's setTimeout callback has not run yet
  loadPhase,          \* where loadWords() is: "start", "answers" (words.txt
                      \* read), "fallback" (in the catch block), "done"
  listening,          \* setupEventListeners() has registered the handlers
  lastOp,             \* the handler that ran last and, for submitGuess, its
                      \* return path: "accepted", "length" (the 5-letter
                      \* message shown), "notallowed" (the not-allowed
                      \* message shown), "reset", "other"
  pguess, panswer, ppattern, pverdict, pphase, \* the pure-function harness
  rnum,               \* the numRecommendations findTopGuesses was called with
  rpool,              \* the guessPool findTopGuesses selected
  rranking            \* the array findTopGuesses returned

sessionVars ==
  <<answerWords, allWords, possibleWords, guessHistory, currentGuess,
    currentResult, testedLetters, knownLetters, excludedLetters,
    recommendedWord, topRecommendations, topRecsDisplay, finalAnswerShown,
    timerPending, loadPhase, listening, lastOp>>
pureVars == <<pguess, panswer, ppattern, pverdict, pphase, rnum, rpool, rranking>>
vars == <<sessionVars, pureVars>>

\* The word lists the model loads: words.txt and total_allowed.txt.
AnswerList ==
  << <<"A", "B", "C", "D", "E">>,
     <<"B", "A", "C", "D", "E">>,
     <<"B", "B", "B", "B", "B">> >>
AllowedList ==
  << <<"A", "A", "A", "A", "A">>,
     <<"A", "B", "C", "D", "E">>,
     <<"B", "A", "C", "D", "E">>,
     <<"B", "B", "B", "B", "B">> >>

\* What the user types into #guessWord: nothing, four letters, the allowed
\* words (one of them in lower case), a five-letter word that is not
\* allowed, and six letters.
InputValues ==
  Range(AllowedList) \cup
  { <<>>,
    <<"A", "B", "C", "D">>,
    <<"a", "b", "c", "d", "e">>,
    <<"F", "F", "F", "F", "F">>,
    <<"A", "B", "C", "D", "E", "F">> }

NoWords == <<"NO WORDS">>

\* A plausible slip: every grey position excludes its letter.
updateLetterTrackingNoCarveOut(guess, result, tested, known, excluded) ==
  [tested |-> tested \cup {guess[i] : i \in Positions},
   known |-> known \cup {guess[i] : i \in {p \in Positions : Marked(result[p])}},
   excluded |->
     excluded \cup {guess[i] : i \in {p \in Positions : result[p] = "grey"}}]

\* updateLetterTracking(guess, result): the three sets afterwards.
updateLetterTracking(guess, result, tested, known, excluded) ==
  [tested |-> tested \cup {guess[i] : i \in Positions},
   known |-> known \cup {guess[i] : i \in {p \in Positions : Marked(result[p])}},
   excluded |->
     excluded \cup
       {guess[i] : i \in {p \in Positions :
          /\ result[p] = "grey"
          /\ ~\E idx \in Positions :
                idx # p /\ guess[idx] = guess[p] /\ Marked(result[idx])}}]

\* A plausible slip: the filter runs over this.answerWords.
filterWordsFromAnswers(possible, guess, result) ==
  FilterSeq(answerWords,
            {w \in Range(answerWords) : isWordCompatible(w, guess, result)})

\* A plausible slip: the filtered array is not assigned.
filterWordsNotAssigned(possible, guess, result) == possible

\* filterWords(guess, result): possibleWords afterwards.
filterWords(possible, guess, result) ==
  FilterSeq(possible, {w \in Range(possible) : isWordCompatible(w, guess, result)})

\* A plausible slip: no branch for an empty candidate list.
updateRecommendationsNoEmptyCheck(possible, all, tested, excluded, word, recs, recsDisplay, final) ==
  IF Len(possible) = 1
  THEN [recommendedWord |-> possible[1], topRecommendations |-> recs,
        topRecsDisplay |-> IF recsDisplay = "absent" THEN "absent" ELSE "none",
        finalAnswerShown |-> TRUE]
  ELSE LET topGuesses == findTopGuesses(TopN, possible, all, tested, excluded)
       IN IF Len(topGuesses) > 0
          THEN [recommendedWord |-> topGuesses[1].word,
                topRecommendations |-> topGuesses,
                topRecsDisplay |-> IF recsDisplay = "absent" THEN "block"
                                   ELSE recsDisplay,
                finalAnswerShown |-> final]
          ELSE [recommendedWord |-> word, topRecommendations |-> recs,
                topRecsDisplay |-> recsDisplay, finalAnswerShown |-> final]

\* updateRecommendations(): the page elements afterwards, given them before.
updateRecommendations(possible, all, tested, excluded, word, recs, recsDisplay, final) ==
  IF Len(possible) = 0
  THEN [recommendedWord |-> NoWords, topRecommendations |-> recs,
        topRecsDisplay |-> recsDisplay, finalAnswerShown |-> final]
  ELSE IF Len(possible) = 1
  THEN \* showFinalAnswers()
       [recommendedWord |-> possible[1], topRecommendations |-> recs,
        topRecsDisplay |-> IF recsDisplay = "absent" THEN "absent" ELSE "none",
        finalAnswerShown |-> TRUE]
  ELSE LET topGuesses == findTopGuesses(TopN, possible, all, tested, excluded)
       IN IF Len(topGuesses) > 0
          THEN \* showTopRecommendations(topGuesses)
               [recommendedWord |-> topGuesses[1].word,
                topRecommendations |-> topGuesses,
                topRecsDisplay |-> IF recsDisplay = "absent" THEN "block"
                                   ELSE recsDisplay,
                finalAnswerShown |-> final]
          ELSE [recommendedWord |-> word, topRecommendations |-> recs,
                topRecsDisplay |-> recsDisplay, finalAnswerShown |-> final]

PureIdle ==
  /\ pguess = <<>>
  /\ panswer = <<>>
  /\ ppattern = <<>>
  /\ pverdict = FALSE
  /\ pphase = "idle"
  /\ rnum = TopN
  /\ rpool = <<>>
  /\ rranking = <<>>

\* The state when init() has loaded both lists, registered the listeners
\* and scheduled the first updateRecommendations.
SessionInit ==
  /\ answerWords = AnswerList
  /\ allWords = AllowedList
  /\ possibleWords = AnswerList
  /\ guessHistory = <<>>
  /\ currentGuess = <<>>
  /\ currentResult = AllGrey
  /\ testedLetters = {}
  /\ knownLetters = {}
  /\ excludedLetters = {}
  /\ recommendedWord = <<>>
  /\ topRecommendations = <<>>
  /\ topRecsDisplay = "absent"
  /\ finalAnswerShown = FALSE
  /\ timerPending = TRUE
  /\ loadPhase = "done"
  /\ listening = TRUE
  /\ lastOp = "other"

Init == SessionInit /\ PureIdle

\* The 'input' listener of #guessWord.
InputGuess ==
  \E typed \in InputValues :
    LET value == toUpperCase(typed)
    IN /\ currentGuess' = IF Len(value) <= 5 THEN value ELSE currentGuess
       /\ lastOp' = "other"
       /\ UNCHANGED <<answerWords, allWords, possibleWords, guessHistory,
                      currentResult, testedLetters, knownLetters,
                      excludedLetters, recommendedWord, topRecommendations,
                      topRecsDisplay, finalAnswerShown, timerPending,
                 loadPhase, listening, pureVars>>

\* A plausible slip: the record shares the array of this.currentResult, so
\* a later click writes into the last record as well.
ClickResultAliased ==
  \E position \in ResultPositions, result \in Colours :
    /\ currentResult' = [currentResult EXCEPT ![position] = result]
    /\ guessHistory' =
         IF guessHistory = <<>> THEN guessHistory
         ELSE [guessHistory EXCEPT ![Len(guessHistory)].result[position] = result]
    /\ lastOp' = "other"
    /\ UNCHANGED <<answerWords, allWords, possibleWords,
                   currentGuess, testedLetters, knownLetters, excludedLetters,
                   recommendedWord, topRecommendations, topRecsDisplay,
                   finalAnswerShown, timerPending,
                 loadPhase, listening, pureVars>>

\* The 'click' listener of a .result-btn.
ClickResult ==
  \E position \in ResultPositions, result \in Colours :
    /\ currentResult' = [currentResult EXCEPT ![position] = result]
    /\ lastOp' = "other"
    /\ UNCHANGED <<answerWords, allWords, possibleWords, guessHistory,
                   currentGuess, testedLetters, knownLetters, excludedLetters,
                   recommendedWord, topRecommendations, topRecsDisplay,
                   finalAnswerShown, timerPending,
                 loadPhase, listening, pureVars>>

\* The click listener of a recommendation item: fillGuessInput(word).
FillGuessInput ==
  /\ topRecsDisplay = "block"
  /\ \E i \in DOMAIN topRecommendations :
       currentGuess' = topRecommendations[i].word
  /\ lastOp' = "other"
  /\ UNCHANGED <<answerWords, allWords, possibleWords, guessHistory,
                 currentResult, testedLetters, knownLetters, excludedLetters,
                 recommendedWord, topRecommendations, topRecsDisplay,
                 finalAnswerShown, timerPending,
                 loadPhase, listening, pureVars>>

\* A plausible slip: the pending guess is not cleared.
ResetInputKeepsGuess ==
  /\ currentGuess' = currentGuess
  /\ currentResult' = AllGrey

\* resetInput().
ResetInput ==
  /\ currentGuess' = <<>>
  /\ currentResult' = AllGrey

\* submitGuess() returning at the length check.
SubmitInvalidLength ==
  /\ Len(currentGuess) # 5
  /\ lastOp' = "length"
  /\ UNCHANGED <<answerWords, allWords, possibleWords, guessHistory,
                 currentGuess, currentResult, testedLetters, knownLetters,
                 excludedLetters, recommendedWord, topRecommendations,
                 topRecsDisplay, finalAnswerShown, timerPending,
                 loadPhase, listening, pureVars>>

\* A plausible slip: the record is pushed before the vocabulary check.
SubmitNotAllowedAfterPush ==
  /\ Len(currentGuess) = 5
  /\ ~Contains(allWords, currentGuess)
  /\ Len(guessHistory) < MaxHistory
  /\ guessHistory' =
       Append(guessHistory, [word |-> currentGuess, result |-> currentResult])
  /\ lastOp' = "notallowed"
  /\ UNCHANGED <<answerWords, allWords, possibleWords, currentGuess,
                 currentResult, testedLetters, knownLetters, excludedLetters,
                 recommendedWord, topRecommendations, topRecsDisplay,
                 finalAnswerShown, timerPending,
                 loadPhase, listening, pureVars>>

\* submitGuess() returning at the vocabulary check.
SubmitNotAllowed ==
  /\ Len(currentGuess) = 5
  /\ ~Contains(allWords, currentGuess)
  /\ lastOp' = "notallowed"
  /\ UNCHANGED <<answerWords, allWords, possibleWords, guessHistory,
                 currentGuess, currentResult, testedLetters, knownLetters,
                 excludedLetters, recommendedWord, topRecommendations,
                 topRecsDisplay, finalAnswerShown, timerPending,
                 loadPhase, listening, pureVars>>

\* submitGuess() past both checks.
SubmitAccepted ==
  /\ Len(currentGuess) = 5
  /\ Contains(allWords, currentGuess)
  /\ Len(guessHistory) < MaxHistory
  /\ timerPending => Len(guessHistory) < MaxSubmitsBeforeTimer
  /\ LET letters == updateLetterTracking(currentGuess, currentResult,
                      testedLetters, knownLetters, excludedLetters)
         possible == filterWords(possibleWords, currentGuess, currentResult)
         page == updateRecommendations(possible, allWords, letters.tested,
                   letters.excluded, recommendedWord, topRecommendations,
                   topRecsDisplay, finalAnswerShown)
     IN /\ guessHistory' =
             Append(guessHistory, [word |-> currentGuess, result |-> currentResult])
        /\ testedLetters' = letters.tested
        /\ knownLetters' = letters.known
        /\ excludedLetters' = letters.excluded
        /\ possibleWords' = possible
        /\ recommendedWord' = page.recommendedWord
        /\ topRecommendations' = page.topRecommendations
        /\ topRecsDisplay' = page.topRecsDisplay
        /\ finalAnswerShown' = page.finalAnswerShown
  /\ ResetInput
  /\ lastOp' = "accepted"
  /\ UNCHANGED <<answerWords, allWords, timerPending,
                 loadPhase, listening, pureVars>>

submitGuess ==
  \/ SubmitInvalidLength
  \/ SubmitNotAllowed
  \/ SubmitAccepted

\* The click listener of #submitGuess.
SubmitClick == submitGuess

\* The keydown listener, for the Enter key (other keys do nothing).
EnterKey == submitGuess

\* A plausible slip: excludedLetters is not cleared.
resetGameKeepsExcluded ==
  /\ possibleWords' = answerWords
  /\ guessHistory' = <<>>
  /\ testedLetters' = {}
  /\ knownLetters' = {}
  /\ ResetInput
  /\ LET page == updateRecommendations(answerWords, allWords, {}, excludedLetters,
                   recommendedWord, topRecommendations, topRecsDisplay,
                   finalAnswerShown)
     IN /\ recommendedWord' = page.recommendedWord
        /\ topRecommendations' = page.topRecommendations
        /\ finalAnswerShown' = FALSE
        /\ topRecsDisplay' = IF page.topRecsDisplay = "absent" THEN "absent"
                             ELSE "block"
  /\ lastOp' = "reset"
  /\ UNCHANGED <<answerWords, allWords, excludedLetters, timerPending,
                 loadPhase, listening, pureVars>>

\* A plausible slip: the guesses are sorted in place, in the array that is
\* this.allWords when the pool is the whole vocabulary.
resetGameSortsInPlace ==
  /\ possibleWords' = answerWords
  /\ guessHistory' = <<>>
  /\ testedLetters' = {}
  /\ knownLetters' = {}
  /\ excludedLetters' = {}
  /\ ResetInput
  /\ LET page == updateRecommendations(answerWords, allWords, {}, {},
                   recommendedWord, topRecommendations, topRecsDisplay,
                   finalAnswerShown)
         sorted == SortByScore([i \in DOMAIN allWords |->
                      DetailedGuess(allWords[i], answerWords, {}, {})])
     IN /\ recommendedWord' = page.recommendedWord
        /\ topRecommendations' = page.topRecommendations
        /\ finalAnswerShown' = FALSE
        /\ topRecsDisplay' = IF page.topRecsDisplay = "absent" THEN "absent"
                             ELSE "block"
        /\ allWords' = IF Len(answerWords) > 2
                       THEN [i \in DOMAIN sorted |-> sorted[i].word]
                       ELSE allWords
  /\ lastOp' = "reset"
  /\ UNCHANGED <<answerWords, timerPending,
                 loadPhase, listening, pureVars>>

\* resetGame(), the click listener of #resetGame.
resetGame ==
  /\ possibleWords' = answerWords
  /\ guessHistory' = <<>>
  /\ testedLetters' = {}
  /\ knownLetters' = {}
  /\ excludedLetters' = {}
  /\ ResetInput
  /\ LET page == updateRecommendations(answerWords, allWords, {}, {},
                   recommendedWord, topRecommendations, topRecsDisplay,
                   finalAnswerShown)
     IN /\ recommendedWord' = page.recommendedWord
        /\ topRecommendations' = page.topRecommendations
        /\ finalAnswerShown' = FALSE
        /\ topRecsDisplay' = IF page.topRecsDisplay = "absent" THEN "absent"
                             ELSE "block"
  /\ lastOp' = "reset"
  /\ UNCHANGED <<answerWords, allWords, timerPending,
                 loadPhase, listening, pureVars>>

\* A plausible slip: the deferred callback starts the candidates afresh
\* before it computes the recommendations.
InitialRecommendationsReloads ==
  /\ timerPending
  /\ timerPending' = FALSE
  /\ possibleWords' = answerWords
  /\ LET page == updateRecommendations(answerWords, allWords, testedLetters,
                   excludedLetters, recommendedWord, topRecommendations,
                   topRecsDisplay, finalAnswerShown)
     IN /\ recommendedWord' = page.recommendedWord
        /\ topRecommendations' = page.topRecommendations
        /\ topRecsDisplay' = page.topRecsDisplay
        /\ finalAnswerShown' = page.finalAnswerShown
  /\ lastOp' = "other"
  /\ UNCHANGED <<answerWords, allWords, guessHistory,
                 currentGuess, currentResult, testedLetters, knownLetters,
                 excludedLetters, loadPhase, listening, pureVars>>

\* The callback init() schedules: updateRecommendations().
InitialRecommendations ==
  /\ timerPending
  /\ timerPending' = FALSE
  /\ LET page == updateRecommendations(possibleWords, allWords, testedLetters,
                   excludedLetters, recommendedWord, topRecommendations,
                   topRecsDisplay, finalAnswerShown)
     IN /\ recommendedWord' = page.recommendedWord
        /\ topRecommendations' = page.topRecommendations
        /\ topRecsDisplay' = page.topRecsDisplay
        /\ finalAnswerShown' = page.finalAnswerShown
  /\ lastOp' = "other"
  /\ UNCHANGED <<answerWords, allWords, possibleWords, guessHistory,
                 currentGuess, currentResult, testedLetters, knownLetters,
                 excludedLetters,
                 loadPhase, listening, pureVars>>

Next ==
  \/ InputGuess
  \/ ClickResult
  \/ FillGuessInput
  \/ SubmitClick
  \/ EnterKey
  \/ resetGame
  \/ InitialRecommendations

Spec == Init /\ [][Next]_vars

(***************************************************************************)
(* The pure functions on their own: every guess and answer over Letters.   *)
(* PatternSpec evaluates a guess against an answer and puts the answer to  *)
(* the filter with the pattern obtained; FilterSpec puts a word to the     *)
(* filter with every feedback pattern.                                     *)
(***************************************************************************)
PureInit ==
  /\ SessionInit
  /\ pguess \in Words
  /\ panswer \in Words
  /\ ppattern = <<>>
  /\ pverdict = FALSE
  /\ pphase = "input"
  /\ rnum = TopN
  /\ rpool = <<>>
  /\ rranking = <<>>

\* p = getResultPattern(guess, answer), then isWordCompatible(answer, guess, p).
Evaluate ==
  /\ pphase = "input"
  /\ ppattern' = getResultPattern(pguess, panswer)
  /\ pverdict' = isWordCompatible(panswer, pguess, ppattern')
  /\ pphase' = "evaluated"
  /\ UNCHANGED <<sessionVars, pguess, panswer, rnum, rpool, rranking>>

PatternNext == Evaluate

PatternSpec == PureInit /\ [][PatternNext]_vars

\* isWordCompatible(word, guess, p) for a feedback p the user entered.
Judge ==
  /\ pphase = "input"
  /\ \E p \in Patterns :
       /\ ppattern' = p
       /\ pverdict' = isWordCompatible(panswer, pguess, p)
  /\ pphase' = "judged"
  /\ UNCHANGED <<sessionVars, pguess, panswer, rnum, rpool, rranking>>

FilterNext == Judge

FilterSpec == PureInit /\ [][FilterNext]_vars

(***************************************************************************)
(* updateLetterTracking on its own: every guess over Letters with every    *)
(* feedback pattern, on top of letter sets left by earlier records.        *)
(***************************************************************************)
TrackInit ==
  /\ answerWords = AnswerList
  /\ allWords = AllowedList
  /\ possibleWords = AnswerList
  /\ guessHistory = <<>>
  /\ currentGuess = <<>>
  /\ currentResult = AllGrey
  /\ testedLetters \in SUBSET Letters
  /\ knownLetters \in SUBSET testedLetters
  /\ excludedLetters \in {{}, testedLetters \ knownLetters}
  /\ recommendedWord = <<>>
  /\ topRecommendations = <<>>
  /\ topRecsDisplay = "absent"
  /\ finalAnswerShown = FALSE
  /\ timerPending = TRUE
  /\ loadPhase = "done"
  /\ listening = TRUE
  /\ lastOp = "other"
  /\ pguess \in Words
  /\ panswer = <<>>
  /\ ppattern = <<>>
  /\ pverdict = FALSE
  /\ pphase = "input"
  /\ rnum = TopN
  /\ rpool = <<>>
  /\ rranking = <<>>

\* updateLetterTracking(guess, p) for a feedback p the user entered.
Track ==
  /\ pphase = "input"
  /\ \E p \in Patterns :
       LET letters == updateLetterTracking(pguess, p, testedLetters,
                                           knownLetters, excludedLetters)
       IN /\ ppattern' = p
          /\ testedLetters' = letters.tested
          /\ knownLetters' = letters.known
          /\ excludedLetters' = letters.excluded
  /\ pphase' = "tracked"
  /\ UNCHANGED <<answerWords, allWords, possibleWords, guessHistory,
                 currentGuess, currentResult, recommendedWord,
                 topRecommendations, topRecsDisplay, finalAnswerShown,
                 timerPending, loadPhase, listening, lastOp, pguess, panswer,
                 pverdict, rnum, rpool, rranking>>

TrackNext == Track

TrackSpec == TrackInit /\ [][TrackNext]_vars

(***************************************************************************)
(* findTopGuesses on its own, on small vocabularies: every candidate list  *)
(* that filtering can leave of the answers (a sub-list, in order), a few   *)
(* letter states, and several values of numRecommendations.                *)
(***************************************************************************)
RankAnswersA ==
  << <<"A", "B", "C", "D", "E">>,
     <<"A", "B", "C", "D", "F">>,
     <<"B", "A", "C", "D", "E">>,
     <<"A", "A", "B", "B", "C">> >>
RankAllowedA ==
  RankAnswersA \o
  << <<"A", "B", "C", "G", "H">>,
     <<"A", "A", "A", "A", "A">>,
     <<"E", "F", "G", "H", "A">> >>
RankAnswersB ==
  << <<"A", "A", "B", "B", "C">>,
     <<"A", "A", "B", "B", "D">>,
     <<"A", "A", "A", "A", "A">> >>
RankAllowedB == RankAnswersB \o << <<"A", "B", "E", "F", "G">> >>

RankVocabularies ==
  { [answers |-> RankAnswersA, allowed |-> RankAllowedA],
    [answers |-> RankAnswersB, allowed |-> RankAllowedB] }

RankLetterStates ==
  { [tested |-> {}, known |-> {}, excluded |-> {}],
    [tested |-> {"A", "B", "C", "D", "E"}, known |-> {"A"}, excluded |-> {"E"}],
    [tested |-> {"A", "E", "F", "G", "H"}, known |-> {"A"}, excluded |-> {"G", "H"}] }

\* The lists Array.prototype.filter can leave of s.
Subsequences(s) == {FilterSeq(s, keep) : keep \in SUBSET Range(s)}

RankInit ==
  /\ \E v \in RankVocabularies :
       /\ answerWords = v.answers
       /\ allWords = v.allowed
       /\ possibleWords \in Subsequences(v.answers)
  /\ \E l \in RankLetterStates :
       /\ testedLetters = l.tested
       /\ knownLetters = l.known
       /\ excludedLetters = l.excluded
  /\ guessHistory = <<>>
  /\ currentGuess = <<>>
  /\ currentResult = AllGrey
  /\ recommendedWord = <<>>
  /\ topRecommendations = <<>>
  /\ topRecsDisplay = "absent"
  /\ finalAnswerShown = FALSE
  /\ timerPending = TRUE
  /\ loadPhase = "done"
  /\ listening = TRUE
  /\ lastOp = "other"
  /\ pguess = <<>>
  /\ panswer = <<>>
  /\ ppattern = <<>>
  /\ pverdict = FALSE
  /\ pphase = "input"
  /\ rnum \in (1..MaxTopN) \cup {TopN}
  /\ rpool = <<>>
  /\ rranking = <<>>

\* findTopGuesses(rnum), with the pool it selected on the way.
Rank ==
  /\ pphase = "input"
  /\ rpool' = IF Len(possibleWords) >= 2
              THEN guessPoolOf(possibleWords, allWords) ELSE <<>>
  /\ rranking' = findTopGuesses(rnum, possibleWords, allWords, testedLetters,
                                excludedLetters)
  /\ pphase' = "ranked"
  /\ UNCHANGED <<sessionVars, pguess, panswer, ppattern, pverdict, rnum>>

RankNext == Rank

RankSpec == RankInit /\ [][RankNext]_vars

(***************************************************************************)
(* The pool selection of findTopGuesses at the sizes its thresholds speak  *)
(* of: candidate lists of 0 to MaxCandidates words, allowed vocabularies   *)
(* around PoolCap words.                                                   *)
(***************************************************************************)
\* The k-th word over Alphabet, in the order of its letters.
WordOf(k) ==
  [i \in Positions |->
     Alphabet[((k \div (Len(Alphabet) ^ (WordLen - i))) % Len(Alphabet)) + 1]]

BigList(n) == [k \in 1..n |-> WordOf(k)]

AllowedSizes == {MaxCandidates, PoolCap - 1, PoolCap, PoolCap + MaxExtra}

PoolInit ==
  /\ answerWords = BigList(MaxCandidates)
  /\ \E m \in AllowedSizes : allWords = BigList(m)
  /\ \E n \in 0..MaxCandidates : possibleWords = BigList(n)
  /\ guessHistory = <<>>
  /\ currentGuess = <<>>
  /\ currentResult = AllGrey
  /\ testedLetters = {}
  /\ knownLetters = {}
  /\ excludedLetters = {}
  /\ recommendedWord = <<>>
  /\ topRecommendations = <<>>
  /\ topRecsDisplay = "absent"
  /\ finalAnswerShown = FALSE
  /\ timerPending = TRUE
  /\ loadPhase = "done"
  /\ listening = TRUE
  /\ lastOp = "other"
  /\ pguess = <<>>
  /\ panswer = <<>>
  /\ ppattern = <<>>
  /\ pverdict = FALSE
  /\ pphase = "input"
  /\ rnum = TopN
  /\ rpool = <<>>
  /\ rranking = <<>>

\* findTopGuesses returning before it selects a pool: at most one candidate.
RankFew ==
  /\ pphase = "input"
  /\ Len(possibleWords) <= 1
  /\ rranking' = findTopGuesses(rnum, possibleWords, allWords, testedLetters,
                                excludedLetters)
  /\ pphase' = "ranked"
  /\ UNCHANGED <<sessionVars, pguess, panswer, ppattern, pverdict, rnum, rpool>>

\* findTopGuesses up to the selection of guessPool.
SelectPool ==
  /\ pphase = "input"
  /\ Len(possibleWords) >= 2
  /\ rpool' = guessPoolOf(possibleWords, allWords)
  /\ pphase' = "pooled"
  /\ UNCHANGED <<sessionVars, pguess, panswer, ppattern, pverdict, rnum, rranking>>

PoolNext ==
  \/ RankFew
  \/ SelectPool

PoolSpec == PoolInit /\ [][PoolNext]_vars

(***************************************************************************)
(* The page from construction on: init() awaits loadWords(), whose fetches *)
(* succeed or fail, then registers the listeners and schedules the first   *)
(* updateRecommendations.  The user may act at any moment; an event that   *)
(* no listener hears changes nothing.                                      *)
(***************************************************************************)
\* The list of the innermost catch block of loadWords.
DemoList ==
  << <<"A", "B", "O", "U", "T">>, <<"A", "B", "O", "V", "E">>,
     <<"A", "B", "U", "S", "E">>, <<"A", "C", "T", "O", "R">>,
     <<"A", "C", "U", "T", "E">>, <<"A", "D", "M", "I", "T">>,
     <<"A", "D", "O", "P", "T">>, <<"A", "D", "U", "L", "T">>,
     <<"A", "F", "T", "E", "R">>, <<"A", "G", "A", "I", "N">> >>

\* The state the constructor leaves, init() being at its first await.
LoadInit ==
  /\ answerWords = <<>>
  /\ allWords = <<>>
  /\ possibleWords = <<>>
  /\ guessHistory = <<>>
  /\ currentGuess = <<>>
  /\ currentResult = AllGrey
  /\ testedLetters = {}
  /\ knownLetters = {}
  /\ excludedLetters = {}
  /\ recommendedWord = <<>>
  /\ topRecommendations = <<>>
  /\ topRecsDisplay = "absent"
  /\ finalAnswerShown = FALSE
  /\ timerPending = FALSE
  /\ loadPhase = "start"
  /\ listening = FALSE
  /\ lastOp = "other"
  /\ PureIdle

\* loadWords(): words.txt is read, or the fetch fails.
FetchAnswers ==
  /\ loadPhase = "start"
  /\ \/ answerWords' = AnswerList /\ loadPhase' = "answers"
     \/ answerWords' = answerWords /\ loadPhase' = "fallback"
  /\ UNCHANGED <<allWords, possibleWords, guessHistory, currentGuess,
                 currentResult, testedLetters, knownLetters, excludedLetters,
                 recommendedWord, topRecommendations, topRecsDisplay,
                 finalAnswerShown, timerPending, listening, lastOp, pureVars>>

\* loadWords(): total_allowed.txt is read and the candidates are set, or
\* the fetch fails.
FetchAllowed ==
  /\ loadPhase = "answers"
  /\ \/ /\ allWords' = AllowedList
        /\ possibleWords' = answerWords
        /\ loadPhase' = "done"
     \/ /\ UNCHANGED <<allWords, possibleWords>>
        /\ loadPhase' = "fallback"
  /\ UNCHANGED <<answerWords, guessHistory, currentGuess,
                 currentResult, testedLetters, knownLetters, excludedLetters,
                 recommendedWord, topRecommendations, topRecsDisplay,
                 finalAnswerShown, timerPending, listening, lastOp, pureVars>>

\* loadWords(), the catch block: words.txt serves as both lists, or, the
\* fetch failing again, the built-in list does.
FetchFallback ==
  /\ loadPhase = "fallback"
  /\ \E list \in {AnswerList, DemoList} :
       /\ answerWords' = list
       /\ allWords' = list
       /\ possibleWords' = list
  /\ loadPhase' = "done"
  /\ UNCHANGED <<guessHistory, currentGuess,
                 currentResult, testedLetters, knownLetters, excludedLetters,
                 recommendedWord, topRecommendations, topRecsDisplay,
                 finalAnswerShown, timerPending, listening, lastOp, pureVars>>

\* A plausible slip: init() does not await loadWords().
setupEventListenersNoAwait ==
  /\ ~listening
  /\ listening' = TRUE
  /\ timerPending' = TRUE
  /\ UNCHANGED <<answerWords, allWords, possibleWords, guessHistory,
                 currentGuess, currentResult, testedLetters, knownLetters,
                 excludedLetters, recommendedWord, topRecommendations,
                 topRecsDisplay, finalAnswerShown, loadPhase, lastOp, pureVars>>

\* init() after loadWords(): setupEventListeners() and the setTimeout.
setupEventListeners ==
  /\ loadPhase = "done"
  /\ ~listening
  /\ listening' = TRUE
  /\ timerPending' = TRUE
  /\ UNCHANGED <<answerWords, allWords, possibleWords, guessHistory,
                 currentGuess, currentResult, testedLetters, knownLetters,
                 excludedLetters, recommendedWord, topRecommendations,
                 topRecsDisplay, finalAnswerShown, loadPhase, lastOp, pureVars>>

\* A key, a click or an input while no listener is registered.
UnheardEvent ==
  /\ ~listening
  /\ UNCHANGED vars

\* Records kept in a session that is followed from the loading on.
MaxLoadHistory == 1

\* The handlers, once registered.
Heard ==
  /\ listening
  /\ Next
  /\ Len(guessHistory') <= MaxLoadHistory

LoadNext ==
  \/ FetchAnswers
  \/ FetchAllowed
  \/ FetchFallback
  \/ setupEventListeners
  \/ UnheardEvent
  \/ Heard

LoadSpec == LoadInit /\ [][LoadNext]_vars

(***************************************************************************)
(* The session of a user who plays against a hidden answer, panswer, and   *)
(* enters the feedback the game shows: the buttons of all five positions   *)
(* are pressed, each for the colour getResultPattern gives the pending     *)
(* guess, and a guess is submitted when the feedback is complete.          *)
(***************************************************************************)
TruthInit ==
  /\ SessionInit
  /\ pguess = <<>>
  /\ panswer \in Range(AnswerList)
  /\ ppattern = <<>>
  /\ pverdict = FALSE
  /\ pphase = "idle"
  /\ rnum = TopN
  /\ rpool = <<>>
  /\ rranking = <<>>

\* The 'click' listener of a .result-btn, for the button of the colour the
\* game shows at that position.
ClickTruthful ==
  /\ Len(currentGuess) = 5
  /\ \E position \in Positions :
       currentResult' =
         [currentResult EXCEPT
            ![position] = getResultPattern(currentGuess, panswer)[position]]
  /\ lastOp' = "other"
  /\ UNCHANGED <<answerWords, allWords, possibleWords, guessHistory,
                 currentGuess, testedLetters, knownLetters, excludedLetters,
                 recommendedWord, topRecommendations, topRecsDisplay,
                 finalAnswerShown, timerPending, loadPhase, listening, pureVars>>

\* submitGuess(), an allowed guess being submitted with the feedback of the
\* game.
SubmitTruthful ==
  \/ SubmitInvalidLength
  \/ SubmitNotAllowed
  \/ /\ Len(currentGuess) = 5
     /\ currentResult = getResultPattern(currentGuess, panswer)
     /\ SubmitAccepted

TruthNext ==
  \/ InputGuess
  \/ ClickTruthful
  \/ FillGuessInput
  \/ SubmitTruthful
  \/ resetGame
  \/ InitialRecommendations

TruthSpec == TruthInit /\ [][TruthNext]_vars

(***************************************************************************)
(* The scorer on candidate lists on both sides of RepeatPenaltyMin: 0 to   *)
(* MaxScored candidates, guesses with and without repeated letters.        *)
(***************************************************************************)
ScoreAllowed ==
  << <<"A", "A", "A", "A", "B">>,
     <<"A", "A", "G", "G", "B">>,
     <<"A", "B", "C", "D", "E">>,
     <<"A", "B", "C", "G", "H">> >>

ScoreInit ==
  /\ answerWords = BigList(MaxScored)
  /\ allWords = ScoreAllowed
  /\ \E n \in 0..MaxScored : possibleWords = BigList(n)
  /\ \E l \in RankLetterStates :
       /\ testedLetters = l.tested
       /\ knownLetters = l.known
       /\ excludedLetters = l.excluded
  /\ guessHistory = <<>>
  /\ currentGuess = <<>>
  /\ currentResult = AllGrey
  /\ recommendedWord = <<>>
  /\ topRecommendations = <<>>
  /\ topRecsDisplay = "absent"
  /\ finalAnswerShown = FALSE
  /\ timerPending = TRUE
  /\ loadPhase = "done"
  /\ listening = TRUE
  /\ lastOp = "other"
  /\ pguess = <<>>
  /\ panswer = <<>>
  /\ ppattern = <<>>
  /\ pverdict = FALSE
  /\ pphase = "input"
  /\ rnum \in (1..MaxTopN) \cup {TopN}
  /\ rpool = <<>>
  /\ rranking = <<>>

ScoreNext == Rank

ScoreSpec == ScoreInit /\ [][ScoreNext]_vars

(***************************************************************************)
(* Claims                                                                  *)
(***************************************************************************)
MarkedCount(guess, pattern, letter) ==
  Cardinality({i \in Positions : guess[i] = letter /\ Marked(pattern[i])})

\* C1 (pattern self-consistency): the answer passes the filter built from
\* the pattern the guess gets against it: with p = getResultPattern(g, a),
\* isWordCompatible(a, g, p) is true.
C1_SelfConsistent ==
  pphase = "evaluated" =>
    /\ ppattern = getResultPattern(pguess, panswer)
    /\ pverdict
    /\ isWordCompatible(panswer, pguess, ppattern)

\* A guess holding one letter twice, once yellow and once grey, evaluated
\* and found compatible.
C1_Witness ==
  /\ pphase = "evaluated"
  /\ pverdict
  /\ \E i, j \in Positions :
       /\ pguess[i] = pguess[j]
       /\ ppattern[i] = "yellow"
       /\ ppattern[j] = "grey"

\* C3 (duplicate-letter bound): for every letter, the positions of the guess
\* holding it that are marked green or yellow are at most as many as the
\* occurrences of the letter in the answer.
C3_DuplicateBound ==
  pphase = "evaluated" =>
    \A letter \in Letters :
      MarkedCount(pguess, ppattern, letter) <= Count(panswer, letter)

\* The guess holds a letter more often than the answer does, and the
\* pattern marks exactly as many as the answer has, leaving one grey.
C3_Witness ==
  /\ pphase = "evaluated"
  /\ \E letter \in Letters :
       /\ Count(panswer, letter) > 0
       /\ Count(pguess, letter) > Count(panswer, letter)
       /\ MarkedCount(pguess, ppattern, letter) = Count(panswer, letter)

\* C10 (the filter decides logical possibility): a word passes
\* isWordCompatible(w, g, p) exactly when getResultPattern(g, w) = p.
C10_FilterExact ==
  pphase = "judged" =>
    (pverdict <=> getResultPattern(pguess, panswer) = ppattern)

SubmitOutcomes == {"accepted", "length", "notallowed"}

\* The session state of the candidate list: the cases updateRecommendations
\* tells apart.
SessionState(possible) ==
  IF Len(possible) = 0 THEN "Exhausted"
  ELSE IF Len(possible) = 1 THEN "Solved"
  ELSE "AwaitingGuess"

\* The candidates left by the first k records of the history.
RECURSIVE ReplayWords(_, _)
ReplayWords(history, k) ==
  IF k = 0 THEN answerWords
  ELSE filterWords(ReplayWords(history, k - 1), history[k].word, history[k].result)

\* The letter sets after the first k records of the history.
RECURSIVE ReplayLetters(_, _)
ReplayLetters(history, k) ==
  IF k = 0 THEN [tested |-> {}, known |-> {}, excluded |-> {}]
  ELSE LET before == ReplayLetters(history, k - 1)
       IN updateLetterTracking(history[k].word, history[k].result,
                               before.tested, before.known, before.excluded)

\* C2 (monotonic narrowing): a submit, accepted or rejected, leaves a
\* candidate list that holds no word the list before did not hold and is no
\* longer; only reset adds words back.
C2_MonotonicNarrowing ==
  [][ \/ /\ Range(possibleWords') \subseteq Range(possibleWords)
         /\ Len(possibleWords') <= Len(possibleWords)
      \/ lastOp' = "reset" ]_vars

\* An accepted submit has narrowed the candidates without emptying them.
C2_Witness ==
  /\ lastOp = "accepted"
  /\ Len(possibleWords) > 0
  /\ Len(possibleWords) < Len(answerWords)

\* C4 (reset): reset leaves the candidates equal to the answer vocabulary,
\* the history and the three letter sets empty; a reset right after a reset
\* changes nothing.
C4_Reset ==
  [][ lastOp' = "reset" =>
        /\ possibleWords' = answerWords'
        /\ guessHistory' = <<>>
        /\ testedLetters' = {}
        /\ knownLetters' = {}
        /\ excludedLetters' = {}
        /\ (lastOp = "reset" => UNCHANGED sessionVars) ]_vars

\* reset has just run, after the recommendations had been shown.
C4_Witness ==
  /\ lastOp = "reset"
  /\ ~timerPending
  /\ possibleWords = answerWords
  /\ guessHistory = <<>>

\* C5 (rejections never mutate state): a submit with a pending guess that is
\* not five letters long, or is not in the allowed vocabulary, is rejected
\* and leaves candidates, history and letter sets unchanged.
C5_RejectionsKeepState ==
  [][ (/\ lastOp' \in SubmitOutcomes
       /\ (Len(currentGuess) # 5 \/ ~Contains(allWords, currentGuess)))
      => /\ lastOp' # "accepted"
         /\ UNCHANGED <<possibleWords, guessHistory, testedLetters,
                        knownLetters, excludedLetters>> ]_vars

\* A five-letter guess outside the vocabulary has just been rejected, in a
\* session that already holds a record.
C5_Witness ==
  /\ lastOp = "notallowed"
  /\ Len(currentGuess) = 5
  /\ guessHistory # <<>>
  /\ Len(possibleWords) < Len(answerWords)

\* C6 as claimed (terminal states are exited only via reset): from Solved or
\* Exhausted, only a reset changes the session state.
C6_TerminalOnlyReset ==
  [][ (/\ SessionState(possibleWords) # "AwaitingGuess"
       /\ SessionState(possibleWords') # SessionState(possibleWords))
      => lastOp' = "reset" ]_vars

\* C6 as amended: from Exhausted only reset changes the session state; from
\* Solved only reset, or an accepted submit whose feedback excludes the last
\* candidate, which leads to Exhausted; no submit leads back to
\* AwaitingGuess.
C6_TerminalAmended ==
  [][ (/\ SessionState(possibleWords) # "AwaitingGuess"
       /\ SessionState(possibleWords') # SessionState(possibleWords)
       /\ lastOp' # "reset")
      => /\ SessionState(possibleWords) = "Solved"
         /\ SessionState(possibleWords') = "Exhausted"
         /\ lastOp' = "accepted" ]_vars

\* Exhausted by the second accepted submit, Solved after the first.
C6_Witness ==
  /\ Len(guessHistory) = 2
  /\ SessionState(possibleWords) = "Exhausted"
  /\ SessionState(ReplayWords(guessHistory, 1)) = "Solved"

\* C7 (exhausted session): whenever the candidate list is empty,
\* findTopGuesses returns the empty list and the page shows 'NO WORDS'; and
\* it stays so until reset.
C7_ExhaustedSignalled ==
  /\ [](possibleWords = <<>> =>
          /\ findTopGuesses(TopN, possibleWords, allWords, testedLetters,
                            excludedLetters) = <<>>
          /\ recommendedWord = NoWords)
  /\ [][ (possibleWords = <<>> /\ lastOp' # "reset") =>
           /\ possibleWords' = <<>>
           /\ recommendedWord' = NoWords ]_vars

\* Two accepted guesses that contradict each other have emptied the list,
\* and the deferred callback has run since.
C7_Witness ==
  /\ possibleWords = <<>>
  /\ recommendedWord = NoWords
  /\ Len(guessHistory) = 2
  /\ ReplayWords(guessHistory, 1) # <<>>
  /\ ~timerPending
  /\ lastOp = "other"

\* C8 (determinism): the candidate list (words and order) and the three
\* letter sets are the ones obtained by replaying the records of the history
\* from the loaded vocabulary, and the ranking shown, once computed, is the
\* one findTopGuesses gives for them: they depend on nothing but the
\* vocabularies and the operations since the last reset, so two sessions
\* given the same operations agree on all of them.
C8_Determinism ==
  LET letters == ReplayLetters(guessHistory, Len(guessHistory))
      words == ReplayWords(guessHistory, Len(guessHistory))
  IN /\ possibleWords = words
     /\ testedLetters = letters.tested
     /\ knownLetters = letters.known
     /\ excludedLetters = letters.excluded
     /\ (Len(possibleWords) >= 2 /\ recommendedWord # <<>>) =>
          topRecommendations =
            findTopGuesses(TopN, words, allWords, letters.tested, letters.excluded)

\* Two records have left two candidates, with a ranking of guesses on show.
C8_Witness ==
  /\ Len(guessHistory) = 2
  /\ Len(possibleWords) >= 2
  /\ Len(topRecommendations) >= 2
  /\ topRecommendations[1].word = recommendedWord
  /\ testedLetters # {}
  /\ knownLetters # {}

\* C9 (candidate-set invariant): the candidates are exactly the words of the
\* answer vocabulary, in its order, that isWordCompatible accepts for every
\* record of the history.
C9_CandidateSet ==
  LET consistent ==
        {w \in Range(answerWords) :
           \A k \in DOMAIN guessHistory :
             isWordCompatible(w, guessHistory[k].word, guessHistory[k].result)}
  IN /\ Range(possibleWords) = consistent
     /\ possibleWords = FilterSeq(answerWords, consistent)
     /\ (guessHistory = <<>> => possibleWords = answerWords)

\* Two different records have left exactly one candidate, the second
\* removing a word the first had kept.
C9_Witness ==
  /\ Len(guessHistory) = 2
  /\ guessHistory[1] # guessHistory[2]
  /\ Len(possibleWords) = 1
  /\ Len(ReplayWords(guessHistory, 1)) > 1

\* C11 (all-grey elimination): after an accepted submit of a guess with
\* grey at all five positions, no candidate holds a letter of the guess, and
\* the guess itself is not a candidate.
C11_AllGreyElimination ==
  (lastOp = "accepted" /\ guessHistory[Len(guessHistory)].result = AllGrey) =>
    LET guess == guessHistory[Len(guessHistory)].word
    IN /\ \A w \in Range(possibleWords) : Range(w) \cap Range(guess) = {}
       /\ ~Contains(possibleWords, guess)

\* An all-grey guess has just been accepted; it removed candidates and left
\* at least one.
C11_Witness ==
  /\ lastOp = "accepted"
  /\ guessHistory[Len(guessHistory)].result = AllGrey
  /\ possibleWords # <<>>
  /\ Len(possibleWords) < Len(ReplayWords(guessHistory, Len(guessHistory) - 1))

\* The positions of a word that are not green for the guess and the answer.
NonGreen(guess, answer) == {i \in Positions : guess[i] # answer[i]}

\* C12 (two-pass evaluation): position i is green iff guess and answer agree
\* there; a position i that is not green, holding letter L, is yellow iff
\* fewer non-green positions of the guess before i hold L than non-green
\* positions of the answer hold L, and grey otherwise.  CRANE against TRACE
\* gives [yellow, green, green, grey, green].
C12_TwoPass ==
  /\ getResultPattern(<<"C", "R", "A", "N", "E">>, <<"T", "R", "A", "C", "E">>)
       = <<"yellow", "green", "green", "grey", "green">>
  /\ pphase = "evaluated" =>
       \A i \in Positions :
         LET L == pguess[i]
             before == Cardinality({k \in NonGreen(pguess, panswer) :
                                      k < i /\ pguess[k] = L})
             available == Cardinality({j \in NonGreen(pguess, panswer) :
                                         panswer[j] = L})
         IN /\ ppattern[i] = "green" <=> pguess[i] = panswer[i]
            /\ ppattern[i] = "yellow" <=>
                 (pguess[i] # panswer[i] /\ before < available)
            /\ ppattern[i] = "grey" <=>
                 (pguess[i] # panswer[i] /\ ~(before < available))

\* A letter green at one position, yellow at a second and grey at a third:
\* the answer holds it twice, the guess three times.
C12_Witness ==
  /\ pphase = "evaluated"
  /\ \E i, j, k \in Positions :
       /\ pguess[i] = pguess[j] /\ pguess[j] = pguess[k]
       /\ ppattern[i] = "green"
       /\ ppattern[j] = "yellow"
       /\ ppattern[k] = "grey"

\* C13 (vocabulary is read-only after load): no step changes the answer
\* vocabulary or the allowed vocabulary, in membership or in order; they
\* stay the lists that were loaded.
C13_VocabularyReadOnly ==
  /\ [](answerWords = AnswerList /\ allWords = AllowedList)
  /\ [][UNCHANGED <<answerWords, allWords>>]_vars

\* A session that was reset, ranked its guesses, took an accepted guess and
\* then rejected one.
C13_Witness ==
  /\ lastOp = "notallowed"
  /\ ~timerPending
  /\ Len(guessHistory) = 1
  /\ Len(topRecommendations) >= 2
  /\ answerWords = AnswerList
  /\ allWords = AllowedList

\* C14 (records are immutable): an accepted submit appends exactly one
\* record, the pending guess with the pending feedback, at the end of the
\* history; every other step but a reset leaves the history as it is.
C14_RecordsImmutable ==
  [][ IF lastOp' = "accepted"
      THEN guessHistory' =
             Append(guessHistory, [word |-> currentGuess, result |-> currentResult])
      ELSE lastOp' # "reset" => guessHistory' = guessHistory ]_vars

\* Two records, the first not all grey, and the feedback buttons pressed
\* since the second was appended.
C14_Witness ==
  /\ Len(guessHistory) = 2
  /\ guessHistory[1].result # AllGrey
  /\ guessHistory[2].result = AllGrey
  /\ currentResult # AllGrey
  /\ lastOp = "other"

\* C18 (Known and Excluded are disjoint): in every reachable state no letter
\* is in both knownLetters and excludedLetters.
C18_KnownExcludedDisjoint == knownLetters \cap excludedLetters = {}

\* C19 (letter state of one record): tracking a record (guess, feedback)
\* leaves in Tested what was there and every letter of the guess, in Known
\* what was there and every letter green or yellow at some position, in
\* Excluded what was there and every letter of the guess all of whose
\* occurrences are grey; nothing is removed.
C19_LetterDerivation ==
  [][ pphase' = "tracked" =>
        \A L \in Range(Alphabet) :
          /\ L \in testedLetters' <=> (L \in testedLetters \/ Contains(pguess, L))
          /\ L \in knownLetters' <=>
               \/ L \in knownLetters
               \/ \E i \in Positions : pguess[i] = L /\ Marked(ppattern'[i])
          /\ L \in excludedLetters' <=>
               \/ L \in excludedLetters
               \/ /\ Contains(pguess, L)
                  /\ \A i \in Positions : pguess[i] = L => ppattern'[i] = "grey" ]_vars

\* A record with one letter both yellow and grey, so known and not
\* excluded, and another letter grey throughout, so excluded.
C19_Witness ==
  /\ pphase = "tracked"
  /\ \E i, j, k \in Positions :
       /\ pguess[i] = pguess[j]
       /\ ppattern[i] = "yellow"
       /\ ppattern[j] = "grey"
       /\ pguess[i] \in knownLetters \ excludedLetters
       /\ pguess[k] \in excludedLetters \ knownLetters

\* The words of a list of recommendations, in its order.
WordsOf(ranking) == [i \in DOMAIN ranking |-> ranking[i].word]

\* C15 (ranking): with at least three candidates findTopGuesses(n) returns at
\* most n recommendations (the first n of the pool's, or all of them), each
\* for a word of the selected pool with the score of that word, in
\* non-increasing order of score, and no pool word left out has a score
\* strictly greater than a returned one.
C15_Ranking ==
  (pphase = "ranked" /\ Len(possibleWords) >= 3) =>
    LET scoreOf(w) == calculateExpectedValue(w, possibleWords, testedLetters,
                                             excludedLetters)
    IN /\ Len(rranking) <= rnum
       /\ Len(rranking) = IF Len(rpool) < rnum THEN Len(rpool) ELSE rnum
       /\ \A i \in DOMAIN rranking :
            /\ Contains(rpool, rranking[i].word)
            /\ rranking[i].score = scoreOf(rranking[i].word)
       /\ \A i, j \in DOMAIN rranking :
            i < j => rranking[i].score >= rranking[j].score
       /\ \A w \in Range(rpool) \ Range(WordsOf(rranking)) :
            \A i \in DOMAIN rranking : scoreOf(w) <= rranking[i].score

\* Three candidates or more, a pool longer than the number asked for, and
\* returned scores that differ.
C15_Witness ==
  /\ pphase = "ranked"
  /\ Len(possibleWords) >= 3
  /\ Len(rpool) > rnum
  /\ Len(rranking) = rnum
  /\ rnum >= 2
  /\ rranking[1].score > rranking[rnum].score

\* C16 (two-candidate pool): with exactly two candidates the pool is the
\* allowed words, in list order, that have five distinct letters and hold a
\* letter one of the candidates has at a position where the two differ; the
\* recommendations are for pool words, and if no allowed word qualifies they
\* are exactly the two candidates.
C16_TwoCandidatePool ==
  (pphase = "ranked" /\ Len(possibleWords) = 2) =>
    LET a == possibleWords[1]
        b == possibleWords[2]
        qualifying ==
          {w \in Range(allWords) :
             /\ Cardinality(Range(w)) = 5
             /\ \E i \in Positions :
                  a[i] # b[i] /\ (Contains(w, a[i]) \/ Contains(w, b[i]))}
    IN /\ Range(rpool) = qualifying
       /\ rpool = FilterSeq(allWords, qualifying)
       /\ IF qualifying = {}
          THEN WordsOf(rranking) = possibleWords
          ELSE Range(WordsOf(rranking)) \subseteq qualifying

\* Two candidates differing in one position; the pool leaves out an allowed
\* word with a repeated letter and one with five distinct letters that holds
\* neither of the two letters.
C16_Witness ==
  /\ pphase = "ranked"
  /\ Len(possibleWords) = 2
  /\ Cardinality(NonGreen(possibleWords[1], possibleWords[2])) = 1
  /\ rpool # <<>>
  /\ \E w \in Range(allWords) \ Range(rpool) : Cardinality(Range(w)) < 5
  /\ \E w \in Range(allWords) \ Range(rpool) : Cardinality(Range(w)) = 5

\* C17 (pool by search-space size): with one candidate the only
\* recommendation is that candidate; with more than 50 candidates the pool
\* is the first 2000 entries of the allowed vocabulary, in list order; with
\* 3 to 50 candidates it is the whole allowed vocabulary.
C17_PoolBySize ==
  /\ (pphase = "ranked" /\ Len(possibleWords) = 1) =>
       WordsOf(rranking) = <<possibleWords[1]>>
  /\ (pphase = "pooled" /\ Len(possibleWords) > 50) =>
       rpool = SubSeq(allWords, 1,
                      IF Len(allWords) < 2000 THEN Len(allWords) ELSE 2000)
  /\ (pphase = "pooled" /\ Len(possibleWords) >= 3 /\ Len(possibleWords) <= 50) =>
       rpool = allWords

\* 51 candidates and more than 2000 allowed words: the pool is cut.
C17_Witness ==
  /\ pphase = "pooled"
  /\ Len(possibleWords) = 51
  /\ Len(allWords) > 2000
  /\ Len(rpool) = 2000

\* The candidates that give the guess the pattern p.
GroupSize(guess, possible, p) ==
  Cardinality({k \in DOMAIN possible : getResultPattern(guess, possible[k]) = p})

\* The sum, over the patterns ps, of the square of the size of its group.
RECURSIVE SumGroupSquares(_, _, _)
SumGroupSquares(guess, possible, ps) ==
  IF ps = {} THEN 0
  ELSE LET p == CHOOSE x \in ps : TRUE
       IN GroupSize(guess, possible, p) * GroupSize(guess, possible, p)
            + SumGroupSquares(guess, possible, ps \ {p})

\* The groups of resultGroups are disjoint and cover the candidates.
GroupsPartition(guess, possible) ==
  LET groups == resultGroups(guess, possible)
  IN /\ \A k \in DOMAIN possible :
          Cardinality({p \in DOMAIN groups : Contains(groups[p], possible[k])}) = 1
     /\ \A p \in DOMAIN groups :
          /\ groups[p] # <<>>
          /\ \A w \in Range(groups[p]) : getResultPattern(guess, w) = p

\* C20 as claimed (expected remaining): for two candidates or more the
\* groups partition the candidates and the value reported is exactly the
\* sum over the groups of |group| * |group| / |C|; for at most one candidate
\* it is |C|.  (Values in tenths.)
C20_ExactSum ==
  pphase = "ranked" =>
    \A guess \in Range(allWords) :
      LET n == Len(possibleWords)
          reported == calculateExpectedRemainingWords(guess, possibleWords)
          patterns == {getResultPattern(guess, possibleWords[k]) :
                         k \in DOMAIN possibleWords}
      IN IF n <= 1 THEN reported = 10 * n
         ELSE /\ GroupsPartition(guess, possibleWords)
              /\ reported * n = 10 * SumGroupSquares(guess, possibleWords, patterns)

\* C20 as amended: the value reported is that sum rounded to one decimal
\* place (to the nearest tenth, a half upwards), and it is the
\* expectedRemaining of the recommendation findTopGuesses returns for the
\* guess.
C20_RoundedSum ==
  pphase = "ranked" =>
    LET n == Len(possibleWords)
    IN /\ \A guess \in Range(allWords) :
            LET reported == calculateExpectedRemainingWords(guess, possibleWords)
                patterns == {getResultPattern(guess, possibleWords[k]) :
                               k \in DOMAIN possibleWords}
                sum == SumGroupSquares(guess, possibleWords, patterns)
            IN IF n <= 1 THEN reported = 10 * n
               ELSE /\ GroupsPartition(guess, possibleWords)
                    /\ 2 * n * reported <= 20 * sum + n
                    /\ 20 * sum + n < 2 * n * (reported + 1)
       /\ (n >= 3 \/ (n = 2 /\ rpool # <<>>)) =>
            \A i \in DOMAIN rranking :
              rranking[i].expectedRemaining =
                calculateExpectedRemainingWords(rranking[i].word, possibleWords)

\* Three candidates that a returned guess splits into a group of two and a
\* group of one: 5/3, reported as 1.7.
C20_Witness ==
  /\ pphase = "ranked"
  /\ Len(possibleWords) = 3
  /\ \E i \in DOMAIN rranking :
       /\ rranking[i].expectedRemaining = 17
       /\ Cardinality({getResultPattern(rranking[i].word, possibleWords[k]) :
                         k \in DOMAIN possibleWords}) = 2

\* The weight of a pattern, in tenths: green 1.5, yellow 1.0, grey 0.4.
PatternWeight(pattern) ==
  LET weight(c) == IF c = "green" THEN 15 ELSE IF c = "yellow" THEN 10 ELSE 4
  IN weight(pattern[1]) + weight(pattern[2]) + weight(pattern[3])
       + weight(pattern[4]) + weight(pattern[5])

\* The sum of the weights of the patterns the guess gets against the first
\* k candidates.
RECURSIVE TotalWeight(_, _, _)
TotalWeight(guess, possible, k) ==
  IF k = 0 THEN 0
  ELSE PatternWeight(getResultPattern(guess, possible[k]))
         + TotalWeight(guess, possible, k - 1)

\* C21 (score formula): for two candidates or more the score of a guess is
\*   (|C| - sum of |group|^2 / |C|) + 1.5 * (distinct letters not in Tested)
\*   - (5 - distinct letters, if fewer than 5 and |C| > 10)
\*   - 3 * (distinct letters in Excluded) + 0.8 * (mean pattern weight),
\* and 0 for at most one candidate; the recommendations carry that score.
\* (Both sides multiplied by 100 * |C|.)
C21_ScoreFormula ==
  pphase = "ranked" =>
    LET n == Len(possibleWords)
        claimed(guess) ==
          LET patterns == {getResultPattern(guess, possibleWords[k]) :
                             k \in DOMAIN possibleWords}
              letters == Range(guess)
              distinct == Cardinality(letters)
          IN 100 * (n * n - SumGroupSquares(guess, possibleWords, patterns))
               + 150 * n * Cardinality({l \in letters : l \notin testedLetters})
               - (IF distinct < 5 /\ n > 10 THEN 100 * n * (5 - distinct) ELSE 0)
               - 300 * n * Cardinality({l \in letters : l \in excludedLetters})
               + 8 * TotalWeight(guess, possibleWords, n)
    IN /\ \A guess \in Range(allWords) :
            calculateExpectedValue(guess, possibleWords, testedLetters,
                                   excludedLetters)
              = IF n <= 1 THEN 0 ELSE claimed(guess)
       /\ n >= 3 =>
            \A i \in DOMAIN rranking :
              rranking[i].score = claimed(rranking[i].word)

\* Eleven candidates or more and a recommended guess with repeated letters
\* that uses an excluded letter and a letter not yet tested.
C21_Witness ==
  /\ pphase = "ranked"
  /\ Len(possibleWords) > 10
  /\ \E i \in DOMAIN rranking :
       /\ Cardinality(Range(rranking[i].word)) < 5
       /\ Range(rranking[i].word) \cap excludedLetters # {}
       /\ Range(rranking[i].word) \ testedLetters # {}

\* C22 (truthful feedback never eliminates the answer): in a session where
\* every accepted submit carries the feedback getResultPattern gives the
\* guess against a fixed word of the answer vocabulary, that word is a
\* candidate in every reachable state, so the candidate list is never empty.
C22_AnswerStays ==
  /\ Contains(possibleWords, panswer)
  /\ SessionState(possibleWords) # "Exhausted"
  /\ \A k \in DOMAIN guessHistory :
       guessHistory[k].result = getResultPattern(guessHistory[k].word, panswer)

\* Two truthful records, the first with a mark beyond the first position,
\* have left the answer as the only candidate.
C22_Witness ==
  /\ Len(guessHistory) = 2
  /\ possibleWords = <<panswer>>
  /\ Len(ReplayWords(guessHistory, 1)) > 1
  /\ \E i \in Positions \ {1} : Marked(guessHistory[1].result[i])

\* The letters of the guesses of a history.
HistoryLetters(history) ==
  UNION {Range(history[k].word) : k \in DOMAIN history}

\* C23 (letter-set containment): Known and Excluded are subsets of Tested,
\* and Tested is exactly the set of letters of the guesses of the history
\* (empty when the history is empty).
C23_LetterContainment ==
  /\ knownLetters \subseteq testedLetters
  /\ excludedLetters \subseteq testedLetters
  /\ testedLetters = HistoryLetters(guessHistory)
  /\ guessHistory = <<>> => testedLetters = {}

\* Two records of different words, with letters known and letters excluded.
C23_Witness ==
  /\ Len(guessHistory) = 2
  /\ guessHistory[1].word # guessHistory[2].word
  /\ knownLetters # {}
  /\ excludedLetters # {}
  /\ Cardinality(testedLetters) > Cardinality(Range(guessHistory[2].word))

\* C24 (no duplicate record from a repeated submit): after an accepted
\* submit the pending guess is empty and the pending feedback all grey, and
\* a submit that follows it directly is rejected for length and leaves
\* history, candidates and letter sets unchanged.
C24_NoDuplicateRecord ==
  /\ [](lastOp = "accepted" => currentGuess = <<>> /\ currentResult = AllGrey)
  /\ [][ (lastOp = "accepted" /\ lastOp' \in SubmitOutcomes) =>
           /\ lastOp' = "length"
           /\ UNCHANGED <<guessHistory, possibleWords, testedLetters,
                          knownLetters, excludedLetters>> ]_vars

\* A submit was rejected for length with nothing typed, in a session that
\* holds one record and could take another.
C24_Witness ==
  /\ lastOp = "length"
  /\ currentGuess = <<>>
  /\ currentResult = AllGrey
  /\ Len(guessHistory) = 1
  /\ Len(possibleWords) >= 2

\* C26 (recommendations are a pure projection): the deferred
\* updateRecommendations, before or after a submit, and the
\* updateRecommendations at the end of every handler leave candidates,
\* history and letter sets as the handler's own steps left them: the
\* deferred call changes none of them, and after any step they are still
\* the replay of the history.
C26_PureProjection ==
  /\ [][ (timerPending /\ ~timerPending') =>
           UNCHANGED <<possibleWords, guessHistory, testedLetters,
                       knownLetters, excludedLetters, answerWords, allWords>> ]_vars
  /\ [](possibleWords = ReplayWords(guessHistory, Len(guessHistory)))

\* The deferred call has run after an accepted submit that left two
\* candidates, and has ranked guesses for them.
C26_Witness ==
  /\ ~timerPending
  /\ lastOp = "other"
  /\ Len(guessHistory) = 1
  /\ Len(possibleWords) = 2
  /\ currentGuess = <<>>
  /\ Len(topRecommendations) >= 1
  /\ recommendedWord = topRecommendations[1].word

\* C25 (no operation before load completes): the handlers are registered
\* only when loadWords has finished, on its success path or a fallback
\* path, with both vocabularies and the candidates set; every step of a
\* handler is taken with the vocabularies loaded, and every step of the
\* loading is taken before any record exists or any candidate was removed.
C25_NoOperationBeforeLoad ==
  /\ [](listening =>
          /\ loadPhase = "done"
          /\ answerWords # <<>>
          /\ allWords # <<>>)
  /\ [][ UNCHANGED <<loadPhase, listening>> =>
           /\ listening /\ loadPhase = "done"
           /\ UNCHANGED <<answerWords, allWords>> ]_vars
  /\ [][ (loadPhase' # loadPhase \/ answerWords' # answerWords
            \/ allWords' # allWords) =>
           /\ ~listening
           /\ guessHistory = <<>>
           /\ possibleWords = <<>>
           /\ lastOp = "other" ]_vars

\* The first fetch succeeded, the second failed, the fallback loaded
\* words.txt as both lists, and a guess was accepted afterwards.
C25_Witness ==
  /\ listening
  /\ loadPhase = "done"
  /\ allWords = AnswerList
  /\ answerWords = AnswerList
  /\ Len(guessHistory) = 1
  /\ Len(possibleWords) < Len(answerWords)

=============================================================================
